---- MODULE Spec2Model ----
(***************************************************************************)
(* Multi-network wallet generator: the address encoder (utils/utils.go and *)
(* its earlier revision, src/unnamed/part_000) and the command-line        *)
(* program that drives it (main.go).                                       *)
(*                                                                         *)
(* Byte strings are sequences over 0..255; Go strings are sequences of     *)
(* one-character strings, so "" is << >>.                                  *)
(*                                                                         *)
(* SHA-256, RIPEMD-160, Keccak-256, secp256k1 and BIP32 live in imported   *)
(* libraries.  They are modelled as fixed deterministic functions with the *)
(* real input and output widths (a small mixing function stands in for the *)
(* compression function); nothing below relies on collision resistance.    *)
(***************************************************************************)
EXTENDS Integers, Sequences, FiniteSets

(* ------------------------------ bounds --------------------------------- *)

\* Private scalars 1..MaxKey are fed to the encoder.
MaxKey == 3

\* --count ranges over -1..MaxCount.
MaxCount == 3

\* --mnemonic ranges over 0..MaxMnemonic; 0 is the empty default, which
\* fails bip39's validation.
MaxMnemonic == 2

(* ------------------------------ bytes ---------------------------------- *)

Repeat(x, n) == [i \in 1..n |-> x]

\* s[from..] of a sequence (Go's s[from-1:]).
Drop(s, n) == SubSeq(s, n + 1, Len(s))

HexDigits ==
    <<"0", "1", "2", "3", "4", "5", "6", "7",
      "8", "9", "a", "b", "c", "d", "e", "f">>

UpperHexDigits ==
    <<"0", "1", "2", "3", "4", "5", "6", "7",
      "8", "9", "A", "B", "C", "D", "E", "F">>

\* fmt.Sprintf("%x", b) / hex.Encode: two lowercase digits per byte.
HexEncode(b) ==
    [i \in 1..(2 * Len(b)) |->
        IF i % 2 = 1 THEN HexDigits[(b[(i + 1) \div 2] \div 16) + 1]
                     ELSE HexDigits[(b[i \div 2] % 16) + 1]]

\* The 4-bit value of position i (1-based) of the hex rendering of b.
Nibble(b, i) ==
    IF i % 2 = 1 THEN b[(i + 1) \div 2] \div 16 ELSE b[i \div 2] % 16

\* ASCII code of the lowercase hex digit of value v.
HexAscii(v) == IF v < 10 THEN 48 + v ELSE 87 + v

(* --------------------- library hash functions -------------------------- *)

\* 131^n modulo 32749, by squaring.
RECURSIVE Pow131(_)
Pow131(n) ==
    IF n = 0 THEN 1
    ELSE LET h == Pow131(n \div 2)
         IN  IF n % 2 = 0 THEN (h * h) % 32749
                          ELSE (((h * h) % 32749) * 131) % 32749

\* The polynomial sum of data[lo..hi], the sum of (data[j] + 1) * 131^(hi-j)
\* modulo 32749, by halving the range.
RECURSIVE Absorb(_, _, _)
Absorb(data, lo, hi) ==
    IF lo > hi THEN 0
    ELSE IF lo = hi THEN data[lo] + 1
    ELSE LET mid == (lo + hi) \div 2
         IN  (Absorb(data, lo, mid) * Pow131(hi - mid)
              + Absorb(data, mid + 1, hi)) % 32749

\* An n-byte digest of data; salt separates the hash functions.
Digest(data, n, salt) ==
    LET a == (Absorb(data, 1, Len(data)) + salt * (Len(data) + 1)) % 32749
    IN  [j \in 1..n |->
            (((a % 251) + 3 * j) * ((a \div 251) + 7 * j + salt)) % 256]

\* sha256.Sum256 / Sum(nil) of a hasher that absorbed data: 32 bytes.
Sha256(data) == Digest(data, 32, 17)

\* ripemd160 Sum(nil): 20 bytes.
Ripemd160(data) == Digest(data, 20, 29)

\* crypto.Keccak256: 32 bytes.
Keccak256(data) == Digest(data, 32, 43)

(* ------------------------- keys (bip32, secp256k1) --------------------- *)

\* The 32-byte big-endian private scalar k (childKey.Key).
ScalarBytes(k) == Repeat(0, 31) \o <<k>>

\* The public point of a private scalar: 32-byte X and Y coordinates.
PointX(key) == Digest(key, 32, 57)
PointY(key) == Digest(key, 32, 71)

\* SerializeCompressed: 0x02 or 0x03 by the parity of Y, then X (33 bytes).
SerializeCompressed(key) ==
    <<2 + (PointY(key)[32] % 2)>> \o PointX(key)

\* SerializeUncompressed / FromECDSAPub: 0x04, X, Y (65 bytes).
SerializeUncompressed(key) == <<4>> \o PointX(key) \o PointY(key)

\* childKey.PublicKey(): bip32 keeps the public key in compressed form.
PublicKey(childKey) == [Key |-> SerializeCompressed(childKey.Key)]

(* ------------------------------ Base58 --------------------------------- *)

B58Alphabet ==
    <<"1", "2", "3", "4", "5", "6", "7", "8", "9",
      "A", "B", "C", "D", "E", "F", "G", "H", "J", "K", "L", "M", "N",
      "P", "Q", "R", "S", "T", "U", "V", "W", "X", "Y", "Z",
      "a", "b", "c", "d", "e", "f", "g", "h", "i", "j", "k", "m",
      "n", "o", "p", "q", "r", "s", "t", "u", "v", "w", "x", "y", "z">>

RECURSIVE LeadingZeros(_)
LeadingZeros(b) ==
    IF Len(b) > 0 /\ b[1] = 0 THEN 1 + LeadingZeros(Tail(b)) ELSE 0

RECURSIVE StripZeros(_)
StripZeros(b) == IF Len(b) > 0 /\ b[1] = 0 THEN StripZeros(Tail(b)) ELSE b

\* One long division of the big-endian base-`from` number num by `to`:
\* quotient digits (same length) and remainder.
RECURSIVE DivMod(_, _, _, _, _, _)
DivMod(num, from, to, i, rem, quot) ==
    IF i > Len(num) THEN [quot |-> quot, rem |-> rem]
    ELSE LET cur == rem * from + num[i]
         IN  DivMod(num, from, to, i + 1, cur % to, Append(quot, cur \div to))

\* The digits of num (base `from`, no leading zeros) in base `to`, most
\* significant first: x.DivMod(x, radix, mod) until x is zero.
RECURSIVE Convert(_, _, _, _)
Convert(num, from, to, acc) ==
    IF Len(num) = 0 THEN acc
    ELSE LET r == DivMod(num, from, to, 1, 0, << >>)
         IN  Convert(StripZeros(r.quot), from, to, <<r.rem>> \o acc)

\* btcutil base58.Encode: the value's base-58 digits, then one "1" per
\* leading zero byte, reversed into most-significant-first order.
Base58Encode(b) ==
    LET digits == Convert(StripZeros(b), 256, 58, << >>)
    IN  Repeat("1", LeadingZeros(b)) \o
        [i \in 1..Len(digits) |-> B58Alphabet[digits[i] + 1]]

\* One round of mr-tron's inner loop: out := out * 256 + b over base-58
\* digits held least-significant-first.
RECURSIVE MulAdd(_, _, _)
MulAdd(out, i, carry) ==
    IF i > Len(out)
    THEN IF carry = 0 THEN out
         ELSE MulAdd(Append(out, 0), i, carry)
    ELSE LET c == carry + 256 * out[i]
         IN  MulAdd([out EXCEPT ![i] = c % 58], i + 1, c \div 58)

RECURSIVE FastDigits(_, _, _)
FastDigits(bin, i, out) ==
    IF i > Len(bin) THEN out
    ELSE FastDigits(bin, i + 1, MulAdd(out, 1, bin[i]))

\* mr-tron base58.Encode (FastBase58Encoding): zcount "1"s, then the
\* digits accumulated by multiply-and-add, most significant first.
MrtronBase58Encode(bin) ==
    LET zcount == LeadingZeros(bin)
        out    == FastDigits(bin, 1, << >>)
        n      == Len(out)
    IN  Repeat("1", zcount) \o
        [i \in 1..n |-> B58Alphabet[out[n + 1 - i] + 1]]

(* ------------------------------ state ---------------------------------- *)

VARIABLES
    \* the encoder under test (package utils)
    rev,            \* which revision of package utils is linked in
    key,            \* the private scalar of the childKey argument
    network,        \* the network argument
    epc,            \* "call": about to call AddressConversion; "ret": returned
    frame,          \* the locals and return value of the call that returned
    sha256Hasher,   \* what the sha256 hasher last made by sha256.New() absorbed
    outs,           \* per network, the result of its first call: <<ret>>
    repeat,         \* whether the call that returned repeated an earlier one
    \* the program (package main)
    pc,             \* position in main()
    mnemonic,       \* --mnemonic
    netFlag,        \* --network
    walletCount,    \* --count
    seed, masterKey, extendedKey,
    i,              \* generateWallets' loop index
    wallets,        \* generateWallets' result so far
    file,           \* the output file: "absent", "empty", "partial", "complete"
    stdout,         \* whether "Wallets saved to ..." was printed
    coinType        \* main's coinType

encVars == <<rev, key, network, epc, frame, sha256Hasher, outs, repeat>>

mainVars ==
    <<pc, mnemonic, netFlag, walletCount, seed, masterKey, extendedKey,
      i, wallets, file, stdout, coinType>>

vars == <<encVars, mainVars>>

(* -------------------------- package utils ------------------------------ *)

\* Version bytes and the checksum width.
VersionBTC == 0
VersionTRX == 65
ChecksumLen == 4

\* A slip that reuses Bitcoin's version byte for the fork.
VersionERCAsBTC == VersionBTC

VersionERC == 33

\* A slip that keeps one package-level hasher and never resets it.
Sha256Stale == sha256Hasher

\* sha256.New() / ripemd160.New(): a hasher that has absorbed nothing.
Sha256New == << >>
Ripemd160New == << >>

\* hasher.Write(data) and hasher.Reset().
Write(h, data) == h \o data
Reset(h) == << >>

\* hash160's sha256Hasher after Write(data) (utils.go line 97).
hash160Hasher(data) == Write(Sha256New, data)

\* hash160: RIPEMD-160 of SHA-256 of the input.
hash160(data) ==
    LET sha256Hash      == Sha256(hash160Hasher(data))
        ripemd160Hasher == Write(Ripemd160New, sha256Hash)
    IN  Ripemd160(ripemd160Hasher)

\* A slip that hashes once.
computeChecksumSingle(data) == SubSeq(Sha256(data), 1, ChecksumLen)

\* computeChecksum: the first 4 bytes of SHA-256 of SHA-256 of data.
computeChecksum(data) ==
    LET firstHash  == Sha256(data)
        secondHash == Sha256(firstHash)
    IN  SubSeq(secondHash, 1, ChecksumLen)

\* common.Address.Hex(): "0x" and the EIP-55 rendering of the 20 bytes; a
\* letter digit is upper-cased when the matching nibble of the Keccak-256
\* of the lowercase hex text exceeds 7.
AddressHex(a) ==
    LET ascii == [j \in 1..(2 * Len(a)) |-> HexAscii(Nibble(a, j))]
        hash  == Keccak256(ascii)
    IN  <<"0", "x">> \o
        [j \in 1..(2 * Len(a)) |->
            IF Nibble(a, j) > 9 /\ Nibble(hash, j) > 7
            THEN UpperHexDigits[Nibble(a, j) + 1]
            ELSE HexDigits[Nibble(a, j) + 1]]

\* crypto.PubkeyToAddress: the last 20 bytes of Keccak-256 of X || Y.
PubkeyToAddress(k) == Drop(Keccak256(Drop(SerializeUncompressed(k), 1)), 12)

\* A call's locals: the pipeline taken, the bytes handed to the hash160
\* step, the versioned payload, the payload handed to Base58, the sha256
\* hasher it left behind (<<h>>, or << >> when it made none) and the
\* string returned.
Locals(pipeline, hashInput, versioned, full, hasher, ret) ==
    [pipeline |-> pipeline, hashInput |-> hashInput, versioned |-> versioned,
     full |-> full, hasher |-> hasher, ret |-> ret]

NoFrame == Locals("none", << >>, << >>, << >>, << >>, << >>)

generateEVMAddress(childKey) ==
    LET address == PubkeyToAddress(childKey.Key)
    IN  Locals("EVM", << >>, << >>, << >>, << >>, AddressHex(address))

generateBTCAddress(childKey) ==
    LET pubKeyBytes      == PublicKey(childKey).Key
        pubKeyHash       == hash160(pubKeyBytes)
        versionedPayload == <<VersionBTC>> \o pubKeyHash
        fullPayload      ==
            versionedPayload \o computeChecksum(versionedPayload)
    IN  Locals("BTC", pubKeyBytes, versionedPayload, fullPayload,
               <<hash160Hasher(pubKeyBytes)>>, Base58Encode(fullPayload))

\* A slip that sends the fork down Bitcoin's pipeline.
generateERCAddressAsBTC(childKey) == generateBTCAddress(childKey)

generateERCAddress(childKey) ==
    LET pubKeyBytes      == PublicKey(childKey).Key
        pubKeyHash       == hash160(pubKeyBytes)
        versionedPayload == <<VersionERC>> \o pubKeyHash
        fullPayload      ==
            versionedPayload \o computeChecksum(versionedPayload)
    IN  Locals("ERC", pubKeyBytes, versionedPayload, fullPayload,
               <<hash160Hasher(pubKeyBytes)>>, Base58Encode(fullPayload))

generateTRXAddress(childKey) ==
    LET pubKeyBytes     == PublicKey(childKey).Key
        sha256Hash      == Sha256(pubKeyBytes)
        ripemd160Hasher == Write(Ripemd160New, sha256Hash)
        pubKeyHash      == Ripemd160(ripemd160Hasher)
        trxPayload      == <<VersionTRX>> \o pubKeyHash
        fullPayload     == trxPayload \o computeChecksum(trxPayload)
    IN  Locals("TRX", pubKeyBytes, trxPayload, fullPayload,
               << >>, MrtronBase58Encode(fullPayload))

\* The default branch: log.Printf and return "".
Unsupported == Locals("none", << >>, << >>, << >>, << >>, << >>)

AddressConversion(childKey, net) ==
    CASE net = "EVM" -> generateEVMAddress(childKey)
      [] net = "BTC" -> generateBTCAddress(childKey)
      [] net = "TRX" -> generateTRXAddress(childKey)
      [] net = "ERC" -> generateERCAddress(childKey)
      [] OTHER       -> Unsupported

\* GetCoinType's case labels and their values.
CoinTypeCases ==
    [n \in {"EVM", "BTC", "ERC", "TRX"} |->
        CASE n = "EVM" -> 60
          [] n = "BTC" -> 0
          [] n = "ERC" -> 151
          [] n = "TRX" -> 195]

\* A slip that drops the TRX case.
GetCoinTypeNoTRX(net) ==
    IF net \in DOMAIN CoinTypeCases \ {"TRX"} THEN CoinTypeCases[net] ELSE 60

GetCoinType(net) ==
    IF net \in DOMAIN CoinTypeCases THEN CoinTypeCases[net] ELSE 60

(* ------------------ package utils, earlier revision -------------------- *)

\* Hash160 of the earlier revision: the same two hashers.
Hash160(data) ==
    LET sha256Hash      == Sha256(hash160Hasher(data))
        ripemd160Hasher == Write(Ripemd160New, sha256Hash)
    IN  Ripemd160(ripemd160Hasher)

\* computeChecksum of the earlier revision: one hasher, Reset in between.
computeChecksumReset(data) ==
    LET h1        == Write(Sha256New, data)
        checksum1 == Sha256(h1)
        h2        == Write(Reset(h1), checksum1)
    IN  SubSeq(Sha256(h2), 1, ChecksumLen)

\* ... and the hasher it leaves behind.
computeChecksumHasher(data) ==
    Write(Reset(Write(Sha256New, data)), Sha256(Write(Sha256New, data)))

generateEVMAddressOld(childKey) ==
    LET newAddress == PubkeyToAddress(childKey.Key)
    IN  Locals("EVM", << >>, << >>, << >>, << >>,
               <<"0", "x">> \o AddressHex(newAddress))

generateBTCAddressOld(childKey) ==
    LET pubKeyBytes      == PublicKey(childKey).Key
        pubKeyHash       == Hash160(pubKeyBytes)
        versionedPayload == <<VersionBTC>> \o pubKeyHash
        checksum         == computeChecksumReset(versionedPayload)
        fullPayload      == versionedPayload \o checksum
    IN  Locals("BTC", pubKeyBytes, versionedPayload, fullPayload,
               <<computeChecksumHasher(versionedPayload)>>,
               Base58Encode(fullPayload))

generateTRXAddressOld(childKey) ==
    LET publicKey    == SerializeUncompressed(childKey.Key)
        pubKeyHash   == Hash160(publicKey)
        addressBytes == <<VersionTRX>> \o pubKeyHash
        checksum     == computeChecksumReset(addressBytes)
        fullPayload  == addressBytes \o checksum
    IN  Locals("TRX", publicKey, addressBytes, fullPayload,
               <<computeChecksumHasher(addressBytes)>>,
               Base58Encode(fullPayload))

AddressConversionOld(childKey, net) ==
    CASE net = "EVM" -> generateEVMAddressOld(childKey)
      [] net = "BTC" -> generateBTCAddressOld(childKey)
      [] net = "TRX" -> generateTRXAddressOld(childKey)
      [] net = "ERC" -> Unsupported
      [] OTHER       -> Unsupported

(* ------------------------ the encoder, called -------------------------- *)

Revisions == {"utils", "part_000"}

Supported == {"EVM", "BTC", "TRX", "ERC"}

\* Values of the network argument: the four identifiers, and two others.
Networks == Supported \cup {"DOGE", ""}

Keys == 1..MaxKey

ChildKey(k) == [Key |-> ScalarBytes(k)]

\* The call AddressConversion(childKey, network) of the linked revision.
CallAddressConversion(r, k, net) ==
    IF r = "utils" THEN AddressConversion(ChildKey(k), net)
                   ELSE AddressConversionOld(ChildKey(k), net)

EncIdle ==
    /\ rev = "utils" /\ key = 1 /\ network = "" /\ epc = "off"
    /\ frame = NoFrame /\ sha256Hasher = << >>
    /\ outs = [n \in Networks |-> << >>] /\ repeat = FALSE

MainIdle ==
    /\ pc = "off" /\ mnemonic = 0 /\ netFlag = "" /\ walletCount = 0
    /\ seed = << >> /\ masterKey = << >> /\ extendedKey = << >>
    /\ i = 0 /\ wallets = << >> /\ file = "absent" /\ stdout = FALSE
    /\ coinType = 0

EncInit ==
    /\ rev \in Revisions
    /\ key \in Keys
    /\ network \in Networks
    /\ epc = "call"
    /\ frame = NoFrame
    /\ sha256Hasher = << >>
    /\ outs = [n \in Networks |-> << >>]
    /\ repeat = FALSE
    /\ MainIdle

\* AddressConversion runs and returns.
Call ==
    /\ epc = "call"
    /\ LET f == CallAddressConversion(rev, key, network)
       IN  /\ frame' = f
           /\ sha256Hasher' =
                  IF Len(f.hasher) = 0 THEN sha256Hasher ELSE f.hasher[1]
           /\ outs' = IF Len(outs[network]) = 0
                      THEN [outs EXCEPT ![network] = <<f.ret>>]
                      ELSE outs
    /\ repeat' = (Len(outs[network]) > 0)
    /\ epc' = "ret"
    /\ UNCHANGED <<rev, key, network, mainVars>>

\* The caller asks for the same key's address on network n.
Again(n) ==
    /\ epc = "ret"
    /\ network' = n
    /\ epc' = "call"
    /\ frame' = NoFrame
    /\ UNCHANGED <<rev, key, sha256Hasher, outs, repeat, mainVars>>

EncNext == Call \/ \E n \in Networks : Again(n)

EncSpec == EncInit /\ [][EncNext]_vars

(* --------------------------- package main ------------------------------ *)

\* bip39.NewSeedWithErrorChecking: an error for an invalid mnemonic, else
\* the 64-byte seed.
MnemonicIsValid(m) == m # 0
NewSeed(m) == Digest(<<m>>, 64, 83)

\* bip32.NewMasterKey(seed).
NewMasterKey(s) == [Key |-> Digest(s, 32, 97)]

\* A uint32 child index as 4 big-endian bytes; a hardened index is
\* bip32.FirstHardenedChild + n.
Ser32(hardened, n) ==
    <<(IF hardened THEN 128 ELSE 0) + ((n \div 16777216) % 128),
      (n \div 65536) % 256, (n \div 256) % 256, n % 256>>

\* extendedKey.NewChildKey(index).
NewChildKey(parent, index) == [Key |-> Digest(parent.Key \o index, 32, 101)]

\* deriveExtendedKey: the path purpose', coin', account', change.
deriveExtendedKey(master, purpose, coin, account, change) ==
    LET k1 == NewChildKey(master, Ser32(TRUE, purpose))
        k2 == NewChildKey(k1, Ser32(TRUE, coin))
        k3 == NewChildKey(k2, Ser32(TRUE, account))
    IN  NewChildKey(k3, Ser32(FALSE, change))

\* A slip that derives index n + 1 for loop counter n.
ChildIndexOff(n) == Ser32(FALSE, n + 1)

\* The index generateWallets derives for loop counter n: uint32(i).
ChildIndex(n) == Ser32(FALSE, n)

\* The record generateWallets appends for a child key.
Wallet(childKey, net) ==
    [PrivateKey |-> HexEncode(childKey.Key),
     PublicKey  |-> HexEncode(PublicKey(childKey).Key),
     Address    |-> AddressConversion(childKey, net).ret]

Mnemonics == 0..MaxMnemonic

Counts == (0 - 1)..MaxCount

Init ==
    /\ pc = "seed"
    /\ mnemonic \in Mnemonics
    /\ netFlag \in Networks
    /\ walletCount \in Counts
    /\ seed = << >> /\ masterKey = << >> /\ extendedKey = << >>
    /\ i = 0
    /\ wallets = << >>
    /\ file = "absent"
    /\ stdout = FALSE
    /\ coinType = 0
    /\ EncIdle

\* log.Fatal / log.Fatalf: the process exits.
Fatal == pc' = "fatal"

\* main, lines 25-28.
GenerateSeed ==
    /\ pc = "seed"
    /\ IF MnemonicIsValid(mnemonic)
       THEN seed' = NewSeed(mnemonic) /\ pc' = "master"
       ELSE Fatal /\ UNCHANGED seed
    /\ UNCHANGED <<mnemonic, netFlag, walletCount, masterKey, extendedKey,
                   i, wallets, file, stdout, coinType, encVars>>

\* main, lines 31-34.
GenerateMasterKey ==
    /\ pc = "master"
    /\ \E ok \in BOOLEAN :
          IF ok THEN masterKey' = NewMasterKey(seed) /\ pc' = "extended"
                ELSE Fatal /\ UNCHANGED masterKey
    /\ UNCHANGED <<mnemonic, netFlag, walletCount, seed, extendedKey,
                   i, wallets, file, stdout, coinType, encVars>>

\* main, lines 37-41; a failing NewChildKey is fatal inside deriveChildKey.
DeriveExtendedKey ==
    /\ pc = "extended"
    /\ coinType' = GetCoinType(netFlag)
    /\ \E ok \in BOOLEAN :
          IF ok
          THEN /\ extendedKey' =
                     deriveExtendedKey(masterKey, 44, coinType', 0, 0)
               /\ pc' = "wallets"
          ELSE Fatal /\ UNCHANGED extendedKey
    /\ UNCHANGED <<mnemonic, netFlag, walletCount, seed, masterKey,
                   i, wallets, file, stdout, encVars>>

\* One turn of generateWallets' loop, lines 95-106.
GenerateWallet ==
    /\ pc = "wallets"
    /\ i < walletCount
    /\ \E ok \in BOOLEAN :
          IF ok
          THEN /\ wallets' =
                     Append(wallets,
                            Wallet(NewChildKey(extendedKey, ChildIndex(i)),
                                   netFlag))
               /\ i' = i + 1
               /\ pc' = "wallets"
          ELSE Fatal /\ UNCHANGED <<wallets, i>>
    /\ UNCHANGED <<mnemonic, netFlag, walletCount, seed, masterKey,
                   extendedKey, file, stdout, coinType, encVars>>

\* generateWallets returns (its error is always nil), lines 108 and 44-47.
WalletsDone ==
    /\ pc = "wallets"
    /\ ~(i < walletCount)
    /\ pc' = "create"
    /\ UNCHANGED <<mnemonic, netFlag, walletCount, seed, masterKey,
                   extendedKey, i, wallets, file, stdout, coinType, encVars>>

\* saveWalletsToFile, lines 122-125: os.Create makes or truncates the file.
CreateFile ==
    /\ pc = "create"
    /\ \E ok \in BOOLEAN :
          IF ok THEN file' = "empty" /\ pc' = "marshal"
                ELSE Fatal /\ UNCHANGED file
    /\ UNCHANGED <<mnemonic, netFlag, walletCount, seed, masterKey,
                   extendedKey, i, wallets, stdout, coinType, encVars>>

\* lines 129-132: json.MarshalIndent of records of three strings; it has no
\* error to return for them.
Marshal ==
    /\ pc = "marshal"
    /\ pc' = "write"
    /\ UNCHANGED <<mnemonic, netFlag, walletCount, seed, masterKey,
                   extendedKey, i, wallets, file, stdout, coinType, encVars>>

\* lines 135-138: file.Write writes everything, or fails having written
\* nothing or a part.
WriteFile ==
    /\ pc = "write"
    /\ \/ file' = "complete" /\ pc' = "print"
       \/ file' \in {"empty", "partial"} /\ Fatal
    /\ UNCHANGED <<mnemonic, netFlag, walletCount, seed, masterKey,
                   extendedKey, i, wallets, stdout, coinType, encVars>>

\* main, line 55.
PrintSaved ==
    /\ pc = "print"
    /\ stdout' = TRUE
    /\ pc' = "done"
    /\ UNCHANGED <<mnemonic, netFlag, walletCount, seed, masterKey,
                   extendedKey, i, wallets, file, coinType, encVars>>

Next ==
    \/ GenerateSeed
    \/ GenerateMasterKey
    \/ DeriveExtendedKey
    \/ GenerateWallet
    \/ WalletsDone
    \/ CreateFile
    \/ Marshal
    \/ WriteFile
    \/ PrintSaved

Spec == Init /\ [][Next]_vars

(* ------------------------------ claims --------------------------------- *)

\* Base58 decoding, as a reader of an address does it: one zero byte per
\* leading "1", then the big-endian bytes of the base-58 value.
B58Index(c) == CHOOSE j \in 1..Len(B58Alphabet) : B58Alphabet[j] = c

Base58Decode(str) ==
    LET digits == [j \in 1..Len(str) |-> B58Index(str[j]) - 1]
    IN  Repeat(0, LeadingZeros(digits)) \o
        Convert(StripZeros(digits), 58, 256, << >>)

\* checksum4 and hash160 as the reference defines them.
Checksum4(b) == SubSeq(Sha256(Sha256(b)), 1, 4)
RefHash160(b) == Ripemd160(Sha256(b))

LowerHex == {HexDigits[j] : j \in 1..Len(HexDigits)}

Max(a, b) == IF a >= b THEN a ELSE b

Base58Networks == {"BTC", "ERC", "TRX"}

\* The calls that run a Base58Check pipeline: in the earlier revision ERC
\* is a stub that encodes nothing.
Encodes == network \in Base58Networks /\ ~(rev = "part_000" /\ network = "ERC")

\* C1: for every key and every identifier other than EVM, BTC, TRX and ERC,
\* the dispatcher's result is an error the caller can tell from an address:
\* never the empty string and never the output of one of the pipelines.
C1_UnsupportedIsError ==
    (epc = "ret" /\ network \notin Supported) =>
        /\ frame.ret # << >>
        /\ \A n \in Supported : frame.ret # CallAddressConversion(rev, key, n).ret

\* C2: a run in which a step fails (an unsupported network included) ends
\* with no output file, created or partial, and "Wallets saved" is printed
\* only when the complete file was written.
C2_NoFileUnlessAllSucceeded ==
    /\ pc = "fatal" => file = "absent"
    /\ (pc \in {"fatal", "done"} /\ netFlag \notin Supported) =>
           (file = "absent" /\ ~stdout)
    /\ stdout => file = "complete"

\* C3: for every key the EVM pipeline returns "0x" followed by exactly 40
\* lowercase hexadecimal characters, 42 in all.
C3_EVMLowercaseHex ==
    (epc = "ret" /\ network = "EVM") =>
        /\ Len(frame.ret) = 42
        /\ frame.ret[1] = "0" /\ frame.ret[2] = "x"
        /\ \A j \in 3..Len(frame.ret) : frame.ret[j] \in LowerHex

\* C4: for every key the TRX pipeline's hash160 step is fed the 65-byte
\* uncompressed public key of the private scalar, never the compressed one.
C4_TRXHashesUncompressed ==
    (epc = "ret" /\ network = "TRX") =>
        /\ Len(frame.hashInput) = 65
        /\ frame.hashInput = SerializeUncompressed(ScalarBytes(key))

\* C5: the payload handed to Base58 begins with the selected network's
\* version byte (0x00 BTC, 0x21 ERC, 0x41 TRX) followed by the 20-byte
\* hash160 digest, the decoded address begins with that byte, and no other
\* identifier has a payload encoded.
C5_VersionByte ==
    epc = "ret" =>
        IF Encodes
        THEN LET v == CASE network = "BTC" -> 0
                        [] network = "ERC" -> 33
                        [] network = "TRX" -> 65
             IN  /\ Len(frame.versioned) = 21
                 /\ frame.versioned[1] = v
                 /\ Drop(frame.versioned, 1) = RefHash160(frame.hashInput)
                 /\ SubSeq(frame.full, 1, 21) = frame.versioned
                 /\ Base58Decode(frame.ret)[1] = v
        ELSE frame.full = << >>

C5_Witness ==
    /\ epc = "ret" /\ rev = "utils" /\ network = "ERC"
    /\ Len(outs["BTC"]) > 0 /\ Len(outs["TRX"]) > 0
    /\ frame.full[1] = 33

\* C6: for BTC, ERC and TRX, decoding the Base58 output gives 25 bytes whose
\* last 4 are checksum4 of the first 21, and those 21 are the versioned
\* payload as it was before the checksum was appended.
C6_ChecksumRoundTrip ==
    (epc = "ret" /\ Encodes) =>
        LET p == Base58Decode(frame.ret)
        IN  /\ Len(p) = 25
            /\ SubSeq(p, 22, 25) = Checksum4(SubSeq(p, 1, 21))
            /\ SubSeq(p, 1, 21) = frame.versioned
            /\ p = frame.full

C6_Witness ==
    /\ epc = "ret" /\ rev = "utils" /\ network = "TRX"
    /\ Len(outs["BTC"]) > 0 /\ Len(outs["ERC"]) > 0
    /\ Len(Base58Decode(frame.ret)) = 25

\* C7: GetCoinType gives EVM 60, BTC 0, ERC 151, TRX 195 and 60 for every
\* other identifier, and the identifiers it has a case for are exactly
\* those for which the dispatcher runs a pipeline.
C7_CoinTypeLockstep ==
    /\ pc \in {"wallets", "create", "marshal", "write", "print", "done"} =>
           coinType = CASE netFlag = "EVM" -> 60
                        [] netFlag = "BTC" -> 0
                        [] netFlag = "ERC" -> 151
                        [] netFlag = "TRX" -> 195
                        [] OTHER           -> 60
    /\ DOMAIN CoinTypeCases =
           {n \in Networks :
               AddressConversion(ChildKey(1), n).pipeline # "none"}
    /\ \A j \in 1..Len(wallets) :
           (wallets[j].Address # << >>) <=> (netFlag \in DOMAIN CoinTypeCases)

C7_Witness ==
    /\ pc = "done" /\ netFlag = "TRX" /\ coinType = 195
    /\ Len(wallets) > 0 /\ wallets[1].Address # << >>

\* C8: the same key fed to the EVM, BTC, TRX and ERC pipelines gives four
\* pairwise distinct strings (and, in utils.go, none of them empty).
C8_FourDistinct ==
    /\ \A n1, n2 \in Supported :
           (n1 # n2 /\ Len(outs[n1]) > 0 /\ Len(outs[n2]) > 0) =>
               outs[n1] # outs[n2]
    /\ rev = "utils" =>
           \A n \in Supported : Len(outs[n]) > 0 => outs[n][1] # << >>

C8_Witness == \A n \in Supported : Len(outs[n]) > 0

C10_OneRecordPerIndex ==
    /\ pc = "wallets" => Len(wallets) = i
    /\ pc \in {"create", "marshal", "write", "print", "done"} =>
           Len(wallets) = Max(walletCount, 0)
    /\ \A j \in 1..Len(wallets) :
           LET childKey == NewChildKey(extendedKey, Ser32(FALSE, j - 1))
           IN  wallets[j] =
                   [PrivateKey |-> HexEncode(childKey.Key),
                    PublicKey  |-> HexEncode(SerializeCompressed(childKey.Key)),
                    Address    |-> AddressConversion(childKey, netFlag).ret]

C10_Witness ==
    /\ pc = "done" /\ walletCount >= 2 /\ Len(wallets) = walletCount
    /\ wallets[1] # wallets[2]

====
